---- MODULE Spec2Model ----
(***************************************************************************)
(* Model of src/game_launcher.py (class GameLauncher): discovery of games  *)
(* by a scan worker thread, reconciliation against the favorites and       *)
(* deleted override lists, and the user commands of the Tk surface.        *)
(*                                                                         *)
(* Strings are TLA+ strings; Python's str and os.path operations are       *)
(* computed character by character (SubSeq on strings).                    *)
(***************************************************************************)
EXTENDS Integers, Sequences, FiniteSets, TLC

(***************************************************************************)
(* Python str operations                                                   *)
(***************************************************************************)
UpperChars == "ABCDEFGHIJKLMNOPQRSTUVWXYZ"

LowerChars == "abcdefghijklmnopqrstuvwxyz"

\* the printable ASCII characters chr(32)..chr(95) in code point order
AsciiLow == " !\"#$%&'()*+,-./0123456789:;<=>?@ABCDEFGHIJKLMNOPQRSTUVWXYZ[\\]^_"

\* the printable ASCII characters chr(97)..chr(126) in code point order
AsciiHigh == "abcdefghijklmnopqrstuvwxyz{|}~"

\* the element of a one-element set; a value bound in {e : v \in {x}} is
\* computed once, however often e mentions v
Value(S) == CHOOSE r \in S : TRUE

\* s[i] of Python, 1-based
CharAt(s, i) == SubSeq(s, i, i)

\* ord(c) for a printable ASCII character
ord(c) ==
    IF \E i \in 1..Len(AsciiLow) : CharAt(AsciiLow, i) = c
    THEN 31 + (CHOOSE i \in 1..Len(AsciiLow) : CharAt(AsciiLow, i) = c)
    ELSE 96 + (CHOOSE i \in 1..Len(AsciiHigh) : CharAt(AsciiHigh, i) = c)

\* the lower-case form of one character
lower_char(c) ==
    IF \E i \in 1..Len(UpperChars) : CharAt(UpperChars, i) = c
    THEN CharAt(LowerChars, CHOOSE i \in 1..Len(UpperChars) : CharAt(UpperChars, i) = c)
    ELSE c

RECURSIVE lower_from(_, _)
\* the lower-case form of s from character i on
lower_from(s, i) ==
    IF i > Len(s) THEN ""
    ELSE lower_char(CharAt(s, i)) \o lower_from(s, i + 1)

\* str.lower()
lower(s) == Value({lower_from(v, 1) : v \in {s}})

RECURSIVE replace_from(_, _, _, _)
\* s from character i on with every old replaced by new
replace_from(s, i, old, new) ==
    IF i > Len(s) THEN ""
    ELSE (IF CharAt(s, i) = old THEN new ELSE CharAt(s, i))
         \o replace_from(s, i + 1, old, new)

\* str.replace(old, new) for a one-character old
replace(s, old, new) == Value({replace_from(v, 1, old, new) : v \in {s}})

\* sub in s
contains(s, sub) ==
    \E i \in 1..(Len(s) - Len(sub) + 1) : SubSeq(s, i, i + Len(sub) - 1) = sub

\* s.endswith(suffix)
endswith(s, suffix) ==
    /\ Len(suffix) <= Len(s)
    /\ SubSeq(s, Len(s) - Len(suffix) + 1, Len(s)) = suffix

\* s.count(c) for a one-character c
count(s, c) == Cardinality({i \in 1..Len(s) : CharAt(s, i) = c})

\* s < t of Python: lexicographic by code point
str_lt(s, t) ==
    \E a \in {s}, b \in {t} :
        \/ /\ Len(a) < Len(b)
           /\ SubSeq(b, 1, Len(a)) = a
        \/ \E i \in 1..Len(a) :
            /\ i <= Len(b)
            /\ SubSeq(a, 1, i - 1) = SubSeq(b, 1, i - 1)
            /\ ord(CharAt(a, i)) < ord(CharAt(b, i))

(***************************************************************************)
(* os.path of Windows (ntpath)                                             *)
(***************************************************************************)
\* os.sep
sep == "\\"

IsSep(c) == c = "\\" \/ c = "/"

\* index of the last separator of p, 0 when there is none
LastSep(p) ==
    IF \E i \in 1..Len(p) : IsSep(CharAt(p, i))
    THEN CHOOSE i \in 1..Len(p) :
            /\ IsSep(CharAt(p, i))
            /\ \A j \in (i + 1)..Len(p) : ~IsSep(CharAt(p, j))
    ELSE 0

\* os.path.basename(p)
basename(p) == SubSeq(p, LastSep(p) + 1, Len(p))

\* os.path.splitext(filename)[0] for a file name with no separator
splitext0(filename) ==
    IF \E i \in 2..Len(filename) : CharAt(filename, i) = "."
    THEN SubSeq(filename, 1,
                (CHOOSE i \in 2..Len(filename) :
                    /\ CharAt(filename, i) = "."
                    /\ \A j \in (i + 1)..Len(filename) : CharAt(filename, j) # ".") - 1)
    ELSE filename

\* os.path.join(a, b) for a relative b
join(a, b) ==
    IF Len(a) = 0 \/ IsSep(CharAt(a, Len(a))) \/ CharAt(a, Len(a)) = ":"
    THEN a \o b
    ELSE a \o sep \o b

(***************************************************************************)
(* The filesystem and the registry the program reads.  A filesystem maps   *)
(* each directory (backslash form, no trailing separator) to its listing   *)
(* in listing order; an unreadable directory raises PermissionError when   *)
(* listed.                                                                 *)
(***************************************************************************)
DirRec(d, f, r) == [dirs |-> d, files |-> f, readable |-> r]

FileSystem ==
    [p \in {"D:\\games", "D:\\games\\Hades - Copy", "D:\\games\\Locked",
            "C:\\Users\\GIGABYTE\\Desktop",
            "C:\\Users\\GIGABYTE\\Desktop\\among us",
            "C:\\Users\\GIGABYTE\\Desktop\\Windows Tools",
            "E:\\Steam\\steamapps\\common",
            "E:\\Steam\\steamapps\\common\\HADES",
            "E:\\Steam\\steamapps\\common\\Terraria"} |->
        CASE p = "D:\\games" ->
                DirRec(<<"Hades - Copy", "Locked">>, <<>>, TRUE)
          [] p = "D:\\games\\Hades - Copy" ->
                DirRec(<<>>, <<"setup.exe", "Hades.exe", "readme.txt">>, TRUE)
          [] p = "D:\\games\\Locked" ->
                DirRec(<<>>, <<"Halo.exe">>, FALSE)
          [] p = "C:\\Users\\GIGABYTE\\Desktop" ->
                DirRec(<<"among us", "Windows Tools">>, <<"notes.txt">>, TRUE)
          [] p = "C:\\Users\\GIGABYTE\\Desktop\\among us" ->
                DirRec(<<>>, <<"UnityCrashHandler64.exe", "Among Us.exe">>, TRUE)
          [] p = "C:\\Users\\GIGABYTE\\Desktop\\Windows Tools" ->
                DirRec(<<>>, <<"minecraft.exe">>, TRUE)
          [] p = "E:\\Steam\\steamapps\\common" ->
                DirRec(<<"HADES", "Terraria">>, <<>>, TRUE)
          [] p = "E:\\Steam\\steamapps\\common\\HADES" ->
                DirRec(<<>>, <<"Hades.exe">>, TRUE)
          [] OTHER ->
                DirRec(<<>>, <<"Terraria.exe">>, TRUE)]

\* the value of HKLM\SOFTWARE\Valve\Steam InstallPath
SteamInstallPath == "E:\\Steam"

\* the key under which a filesystem holds path p
NormPath(p) ==
    LET q == replace(p, "/", sep)
    IN  IF Len(q) > 0 /\ CharAt(q, Len(q)) = sep /\ Len(q) > 1
        THEN SubSeq(q, 1, Len(q) - 1) ELSE q

\* os.path.exists(p) and os.path.isdir(p), for directories
exists(fs, p) == NormPath(p) \in DOMAIN fs

\* whether listing p succeeds
Listable(fs, p) == exists(fs, p) /\ fs[NormPath(p)].readable

(***************************************************************************)
(* Sequence helpers                                                        *)
(***************************************************************************)
Range(q) == {q[i] : i \in 1..Len(q)}

\* any(term in s for term in terms)
any_in(terms, s) == \E i \in 1..Len(terms) : contains(s, terms[i])

(***************************************************************************)
(* NameResolver and Classifier                                             *)
(***************************************************************************)
GameEntry(n, p) == [name |-> n, path |-> p]

\* s.lower().replace(' ', '').replace('-', '').replace('_', '')
clean(s) == replace(replace(replace(lower(s), " ", ""), "-", ""), "_", "")

name_suffixes == <<" - Copy", " (1)", " (2)", " (3)", " - Shortcut">>

generic_names == {"bin", "game", "common", "games", "steamapps"}

RECURSIVE strip_suffixes(_, _)
\* the loop over the suffixes, from suffix k on
strip_suffixes(name, k) ==
    IF k > Len(name_suffixes) THEN name
    ELSE IF endswith(name, name_suffixes[k])
         THEN strip_suffixes(SubSeq(name, 1, Len(name) - Len(name_suffixes[k])), k + 1)
         ELSE strip_suffixes(name, k + 1)

get_game_name_from_path(directory, filename) ==
    LET name == strip_suffixes(basename(directory), 1)
    IN  IF lower(name) \in generic_names THEN splitext0(filename) ELSE name

skip_words ==
    <<"system", "windows", "program", "files", "data", "temp", "cache", "log", "config",
      "backup", "bin", "lib", "common", "shared", "runtime", "framework", "microsoft",
      "adobe", "google", "mozilla", "chrome", "nodejs", "python", "git", "docker",
      "office", "visual", "studio", "code", "notepad", "calculator", "paint", "vlc",
      "skype", "discord", "obs", "zoom">>

is_likely_game_directory(dirname) == ~any_in(skip_words, clean(dirname))

blacklist ==
    <<"uninstall", "install", "setup", "config", "update", "patch", "launcher_",
      "bootstrap", "updater", "patcher", "installer", "unins000", "repair",
      "redist", "vcredist", "directx", "dotnet", "runtime", "framework", "debug",
      "test", "system32", "msi", "dll", "editor", "tool", "utility", "crash">>

popular_games ==
    <<"fortnite", "apex", "valorant", "csgo", "dota", "minecraft", "skyrim", "witcher",
      "gtav", "rdr2", "forza", "fifa", "nba2k", "doom", "halo", "metro", "bioshock",
      "portal", "halflife", "amongus", "hades", "stardewvalley", "eldenring", "cyberpunk">>

platform_paths ==
    <<"steamapps/common", "epic games", "origin games", "ubisoft", "riot games",
      "battle.net", "gog games", "xbox games", "rockstar games">>

platform_blocked == <<"setup", "launcher", "updater", "uninstall">>

custom_paths == <<"downloads\\games", "d:\\games", "c:\\games">>

custom_blocked == <<"setup", "installer", "config">>

\* is_likely_game with the popular-title test placed before the blacklist test
is_likely_game_popular_first(filename, path) ==
    LET filename_clean == clean(filename)
        path_clean == clean(path)
    IN  IF any_in(popular_games, filename_clean) \/ any_in(popular_games, path_clean)
        THEN TRUE
        ELSE FALSE

is_likely_game(filename, path) ==
    LET filename_clean == clean(filename)
        path_clean == clean(path)
        is_in_platform ==
            \E i \in 1..Len(platform_paths) :
                contains(path_clean, replace(platform_paths[i], "/", "\\"))
        parent_dir == lower(basename(path))
    IN  IF any_in(blacklist, filename_clean) THEN FALSE
        ELSE IF any_in(popular_games, filename_clean) \/ any_in(popular_games, path_clean)
             THEN TRUE
        ELSE IF is_in_platform /\ ~any_in(platform_blocked, filename_clean) THEN TRUE
        ELSE IF /\ any_in(custom_paths, path_clean)
                /\ ~any_in(custom_blocked, filename_clean)
                /\ Len(parent_dir) > 2
                /\ parent_dir \notin {"bin", "game", "common"}
             THEN TRUE
        ELSE FALSE

\* file.lower().endswith('.exe') and self.is_likely_game(file, root)
IsGameExe(file, root) == endswith(lower(file), ".exe") /\ is_likely_game(file, root)

(***************************************************************************)
(* TraversalEngine                                                         *)
(***************************************************************************)
\* the depth limit of the deep scan
DepthLimit == 2

RECURSIVE deep_files(_, _, _)
\* the candidates of the files of one visited directory, from file k on
deep_files(files, root, k) ==
    IF k > Len(files) THEN <<>>
    ELSE (IF IsGameExe(files[k], root)
          THEN <<GameEntry(get_game_name_from_path(root, files[k]), join(root, files[k]))>>
          ELSE <<>>)
         \o deep_files(files, root, k + 1)

\* the pruning test with >= in place of >
Descend_at_limit(root, directory) ==
    ~(count(root, sep) - count(directory, sep) >= DepthLimit)

\* whether os.walk descends below root: dirs[:] = [] past the depth limit
Descend(root, directory) == ~(count(root, sep) - count(directory, sep) > DepthLimit)

RECURSIVE walk(_, _, _)
RECURSIVE walk_dirs(_, _, _, _, _)
\* the candidates of os.walk top-down from root, within the scan of directory
walk(fs, root, directory) ==
    IF ~Listable(fs, root) THEN <<>>
    ELSE LET d == fs[NormPath(root)]
         IN  deep_files(d.files, root, 1)
             \o (IF Descend(root, directory)
                 THEN walk_dirs(fs, root, d.dirs, 1, directory)
                 ELSE <<>>)

walk_dirs(fs, root, dirs, k, directory) ==
    IF k > Len(dirs) THEN <<>>
    ELSE walk(fs, join(root, dirs[k]), directory)
         \o walk_dirs(fs, root, dirs, k + 1, directory)

\* the list games after scan_directory_deep(directory, games), acc its value before
scan_directory_deep(fs, directory, acc) == acc \o walk(fs, directory, directory)

RECURSIVE first_game_exe_without_break(_, _, _)
\* the inner loop of scan_directory_shallow without its break: every
\* qualifying executable of the child
first_game_exe_without_break(files, item_path, k) ==
    IF k > Len(files) THEN <<>>
    ELSE (IF IsGameExe(files[k], item_path)
          THEN <<GameEntry(get_game_name_from_path(item_path, files[k]),
                           join(item_path, files[k]))>>
          ELSE <<>>)
         \o first_game_exe_without_break(files, item_path, k + 1)

RECURSIVE first_game_exe(_, _, _)
\* the first qualifying executable among the files of a child, from file k on
first_game_exe(files, item_path, k) ==
    IF k > Len(files) THEN <<>>
    ELSE IF IsGameExe(files[k], item_path)
         THEN <<GameEntry(get_game_name_from_path(item_path, files[k]),
                          join(item_path, files[k]))>>
         ELSE first_game_exe(files, item_path, k + 1)

RECURSIVE shallow_items(_, _, _, _)
\* the candidates of the children of directory, from child k on
shallow_items(fs, directory, items, k) ==
    IF k > Len(items) THEN <<>>
    ELSE LET item_path == join(directory, items[k])
         IN  (IF is_likely_game_directory(items[k]) /\ Listable(fs, item_path)
              THEN first_game_exe(fs[NormPath(item_path)].files, item_path, 1)
              ELSE <<>>)
             \o shallow_items(fs, directory, items, k + 1)

\* the list games after scan_directory_shallow(directory, games), acc its value before
scan_directory_shallow(fs, directory, acc) ==
    IF ~Listable(fs, directory) THEN acc
    ELSE acc \o shallow_items(fs, directory, fs[NormPath(directory)].dirs, 1)

RECURSIVE registry_items(_, _, _, _)
\* the loop over the Steam library of get_registry_games, from child k on;
\* a listing failure ends the loop with what was collected
registry_items(fs, steamapps_path, items, k) ==
    IF k > Len(items) THEN <<>>
    ELSE LET game_path == join(steamapps_path, items[k])
         IN  IF ~Listable(fs, game_path) THEN <<>>
             ELSE (LET f == first_game_exe(fs[NormPath(game_path)].files, game_path, 1)
                   IN  IF f = <<>> THEN <<>>
                       ELSE <<GameEntry(items[k], f[1].path)>>)
                  \o registry_items(fs, steamapps_path, items, k + 1)

get_registry_games(fs, install_path) ==
    LET steamapps_path == join(join(install_path, "steamapps"), "common")
    IN  IF install_path = "" \/ ~Listable(fs, steamapps_path) THEN <<>>
        ELSE registry_items(fs, steamapps_path, fs[NormPath(steamapps_path)].dirs, 1)

(***************************************************************************)
(* Deduplicator/Reconciler                                                 *)
(***************************************************************************)
\* key = game['name'].lower().replace(' ', '')
name_key(game) == replace(lower(game.name), " ", "")

\* the sort key without the lower-casing
sort_key_raw(game) == game.name

\* the sort key of games: x['name'].lower()
sort_key(game) == lower(game.name)

RECURSIVE unique_from_keep_last(_, _, _)
\* the loop that keeps the last entry of each key instead of the first
unique_from_keep_last(cands, k, seen) ==
    IF k > Len(cands) THEN <<>>
    ELSE (IF \E j \in (k + 1)..Len(cands) : name_key(cands[j]) = name_key(cands[k])
          THEN <<>> ELSE <<cands[k]>>)
         \o unique_from_keep_last(cands, k + 1, seen)

RECURSIVE unique_from(_, _, _)
\* the loop over the candidates that keeps the first entry of each key, from entry k on
unique_from(cands, k, seen) ==
    IF k > Len(cands) THEN <<>>
    ELSE Value({IF name_key_k \notin seen
                THEN <<cands[k]>> \o unique_from(cands, k + 1, seen \cup {name_key_k})
                ELSE unique_from(cands, k + 1, seen) :
                    name_key_k \in {name_key(cands[k])}})

\* unique_games of scan_for_games, for the candidate list cands
unique_games(cands) == Value({unique_from(l, 1, {}) : l \in {cands}})

\* [g['path'] for g in entries]
paths_of(entries) == [i \in 1..Len(entries) |-> entries[i].path]

\* [g for g in entries if g['path'] not in paths]
without_paths(entries, paths) ==
    LET Keep(g) == g.path \notin Range(paths)
    IN  SelectSeq(entries, Keep)

\* [g for g in entries if g['path'] != path]
without_path(entries, path) ==
    LET Keep(g) == g.path # path
    IN  SelectSeq(entries, Keep)

\* [f for f in entries if f['name'] != name]
without_name(entries, name) ==
    LET Keep(g) == g.name # name
    IN  SelectSeq(entries, Keep)

\* q with x inserted after the last entry whose sort key is not greater
insert_sorted(q, x) ==
    Value({SubSeq(q, 1, n) \o <<x>> \o SubSeq(q, n + 1, Len(q)) :
            n \in {Cardinality({i \in 1..Len(q) :
                        ~str_lt(sort_key(x), sort_key(q[i]))})}})

RECURSIVE sorted_from(_, _, _)
\* acc with q[k], q[k+1], ... inserted in turn
sorted_from(q, k, acc) ==
    IF k > Len(q) THEN acc
    ELSE Value({sorted_from(q, k + 1, next) : next \in {insert_sorted(acc, q[k])}})

\* sorted(q, key=lambda x: x['name'].lower()): stable, ascending
sorted_by_name(q) == Value({sorted_from(l, 1, <<>>) : l \in {q}})

(***************************************************************************)
(* Bounds                                                                  *)
(***************************************************************************)
\* scan passes started in one behaviour
MaxPasses == 2

\* user operations (scan click that starts a pass, toggle, delete, restore,
\* custom path) in one behaviour
MaxCmds == 1

\* candidates in each of the two lists given to the duplicate removal
MaxCands == 2

\* levels of directories below the root of a deep scan
MaxDepth == 4

\* child directories of the root of a shallow scan
MaxChildren == 2

(***************************************************************************)
(* The launcher                                                            *)
(***************************************************************************)
\* the roots of a full scan: two of the roots listed in scan_for_games
game_dirs == <<"D:\\games", "C:\\Users\\GIGABYTE\\Desktop">>

deep_keywords == <<"steam", "epic", "origin", "ubisoft", "riot", "battle.net", "gog", "games">>

\* the directories the user picks in the dialog of add_custom_path,
\* in the forward-slash form askdirectory returns; "" is a cancelled dialog
CustomDirs == {"", "D:/games"}

\* the contents of the two documents at startup: a first launch, and a launch
\* after Hades was deleted and then starred on the Deleted tab
StartDocuments ==
    {[favorites |-> <<>>, deleted |-> <<>>],
     [favorites |-> <<GameEntry("Hades", "D:\\games\\Hades - Copy\\Hades.exe")>>,
      deleted |-> <<GameEntry("Hades", "D:\\games\\Hades - Copy\\Hades.exe")>>]}

VARIABLES
    games,            \* self.games: AllGames
    favorites,        \* self.favorites
    deleted_games,    \* self.deleted_games
    filtered_games,   \* self.filtered_games
    scanning,         \* self.scanning
    favorites_file,   \* the content of favorites.json
    deleted_file,     \* the content of deleted_games.json
    cards,            \* the game cards shown in the three tabs
    after_queue,      \* callbacks scheduled with root.after(0, ...), oldest first
    threads,          \* the scan worker threads started so far, by pass
    startup,          \* the root.after(500, scan_games_thread) timer is pending
    ncmds,            \* user operations done
    last_cmd,         \* history: the last user command that ran
    last_scan,        \* history: what the last publishing pass read and published
    fn_in,            \* the arguments of a function checked on its own
    fn_out            \* its result

vars == <<games, favorites, deleted_games, filtered_games, scanning,
          favorites_file, deleted_file, cards, after_queue, threads, startup, ncmds,
          last_cmd, last_scan, fn_in, fn_out>>

\* the variables of the functions checked on their own
fn_vars == <<fn_in, fn_out>>

Msg(pass, kind, i) == [pass |-> pass, kind |-> kind, i |-> i]

\* a worker at the start of scan_for_games
NewThread ==
    [pc |-> "loop", i |-> 1, games |-> <<>>, deleted_paths |-> <<>>,
     filtered_games |-> <<>>]

\* a worker that has returned from scan_for_games: its locals are gone
DoneThread == [NewThread EXCEPT !.pc = "done"]

NoCall == [done |-> FALSE, value |-> <<>>]

\* the launcher after __init__ with the two documents holding doc: they are
\* loaded, nothing is shown
LauncherStart(doc) ==
    /\ games = <<>>
    /\ filtered_games = <<>>
    /\ scanning = FALSE
    /\ favorites_file = doc.favorites
    /\ deleted_file = doc.deleted
    /\ favorites = favorites_file
    /\ deleted_games = deleted_file
    /\ cards = [all |-> {}, favorites |-> {}, deleted |-> {}]
    /\ after_queue = <<>>
    /\ threads = <<>>
    /\ startup = TRUE
    /\ ncmds = 0
    /\ last_cmd = "none"
    /\ last_scan = [pass |-> 0, deleted_paths |-> <<>>, result |-> <<>>,
                    repeated |-> FALSE]

Init ==
    /\ \E doc \in StartDocuments : LauncherStart(doc)
    /\ fn_in = <<>>
    /\ fn_out = NoCall

\* populate_favorites_list without its filter against the deleted list
populate_favorites_list_unfiltered(fav, del) == fav

\* self.favorites after populate_favorites_list
populate_favorites_list(fav, del) == without_paths(fav, paths_of(del))

\* update_game_lists with the lists as the handler left them: the favorites
\* are filtered against the deleted list and the three tabs are redrawn
update_game_lists(flt, fav, del) ==
    /\ favorites' = populate_favorites_list(fav, del)
    /\ cards' = [all |-> Range(flt),
                 favorites |-> Range(populate_favorites_list(fav, del)),
                 deleted |-> Range(del)]

(***************************************************************************)
(* ScanOrchestrator: the interactive side                                  *)
(***************************************************************************)
\* scan_games_thread without the check of self.scanning
scan_games_thread_unguarded ==
    /\ Len(threads) < MaxPasses
    /\ scanning' = TRUE
    /\ after_queue' = after_queue
           \o <<Msg(Len(threads) + 1, "status_scanning", 0),
                Msg(Len(threads) + 1, "progress_init", 0)>>
    /\ threads' = Append(threads, NewThread)

\* scan_games_thread, run on the interactive context
scan_games_thread ==
    IF scanning
    THEN UNCHANGED <<scanning, after_queue, threads>>
    ELSE /\ Len(threads) < MaxPasses
         /\ scanning' = TRUE
         /\ after_queue' = after_queue
                \o <<Msg(Len(threads) + 1, "status_scanning", 0),
                     Msg(Len(threads) + 1, "progress_init", 0)>>
         /\ threads' = Append(threads, NewThread)

\* the timer set in __init__ fires scan_games_thread
startup_scan ==
    /\ startup
    /\ startup' = FALSE
    /\ scan_games_thread
    /\ UNCHANGED <<games, favorites, deleted_games, filtered_games,
                   favorites_file, deleted_file, cards, ncmds, last_cmd, last_scan,
                   fn_vars>>

\* the Scan Games button
refresh_games ==
    /\ IF ~scanning
       THEN /\ ncmds < MaxCmds
            /\ ncmds' = ncmds + 1
            /\ scan_games_thread
       ELSE UNCHANGED <<scanning, after_queue, threads, ncmds>>
    /\ UNCHANGED <<games, favorites, deleted_games, filtered_games,
                   favorites_file, deleted_file, cards, startup, last_cmd, last_scan,
                   fn_vars>>

\* the interactive context runs the oldest scheduled callback; only the
\* update_game_lists callback changes the lists, the others set label texts
run_callback ==
    /\ after_queue # <<>>
    /\ after_queue' = Tail(after_queue)
    /\ IF Head(after_queue).kind = "update"
       THEN update_game_lists(filtered_games, favorites, deleted_games)
       ELSE UNCHANGED <<favorites, cards>>
    /\ UNCHANGED <<games, deleted_games, filtered_games, scanning,
                   favorites_file, deleted_file, threads, startup, ncmds,
                   last_cmd, last_scan, fn_vars>>

(***************************************************************************)
(* ScanOrchestrator: the worker, scan_for_games, one step per access to    *)
(* the shared state                                                        *)
(***************************************************************************)
\* the list games after the scan of one root of the loop, acc its value before
scan_root(fs, directory, acc) ==
    IF ~exists(fs, directory) THEN acc
    ELSE IF any_in(deep_keywords, lower(directory))
         THEN scan_directory_deep(fs, directory, acc)
         ELSE scan_directory_shallow(fs, directory, acc)

\* what the scan of each root of game_dirs appends to games; the filesystem
\* does not change during a behaviour
RootCandidates == [i \in 1..Len(game_dirs) |-> scan_root(FileSystem, game_dirs[i], <<>>)]

\* what get_registry_games returns
RegistryCandidates == get_registry_games(FileSystem, SteamInstallPath)

\* the directories of the dialog when add_custom_path is checked on its own
DialogDirs == CustomDirs \cup {"E:/Steam/steamapps/common"}

\* what the deep scan of each directory of the dialog finds
CustomCandidates == [d \in DialogDirs |-> scan_directory_deep(FileSystem, d, <<>>)]

SetThread(k, t) == threads' = [threads EXCEPT ![k] = t]

\* one iteration of the loop over game_dirs: the two progress callbacks are
\* scheduled, then the root is scanned; an exception other than OSError
\* leaves the loop for the handler of scan_for_games
worker_scan_root(k) ==
    LET t == threads[k]
    IN  /\ t.pc = "loop"
        /\ after_queue' = after_queue \o <<Msg(k, "progress", t.i), Msg(k, "idle", t.i)>>
        /\ \E fault \in BOOLEAN :
            IF fault
            THEN SetThread(k, [t EXCEPT !.pc = "except"])
            ELSE SetThread(k, [t EXCEPT
                    !.games = t.games \o RootCandidates[t.i],
                    !.i = t.i + 1,
                    !.pc = IF t.i = Len(game_dirs) THEN "registry" ELSE "loop"])
        /\ UNCHANGED <<games, favorites, deleted_games, filtered_games, scanning,
                       favorites_file, deleted_file, cards, startup, ncmds,
                       last_cmd, last_scan, fn_vars>>

\* the registry step: its callback is scheduled, the registry games are appended
worker_registry(k) ==
    LET t == threads[k]
    IN  /\ t.pc = "registry"
        /\ after_queue' = Append(after_queue, Msg(k, "registry", 0))
        /\ SetThread(k, [t EXCEPT
                !.games = t.games \o RegistryCandidates,
                !.pc = "reconcile"])
        /\ UNCHANGED <<games, favorites, deleted_games, filtered_games, scanning,
                       favorites_file, deleted_file, cards, startup, ncmds,
                       last_cmd, last_scan, fn_vars>>

\* a reconciliation in which the worker also drops the deleted paths from
\* self.favorites
worker_reconcile_filtering_favorites(k) ==
    LET t == threads[k]
    IN  /\ t.pc = "reconcile"
        /\ SetThread(k, [t EXCEPT
                !.deleted_paths = paths_of(deleted_games),
                !.filtered_games = without_paths(unique_games(t.games),
                                                 paths_of(deleted_games)),
                !.pc = "publish"])
        /\ favorites' = without_paths(favorites, paths_of(deleted_games))
        /\ UNCHANGED <<games, deleted_games, filtered_games, scanning,
                       favorites_file, deleted_file, cards, after_queue, startup, ncmds,
                       last_cmd, last_scan, fn_vars>>

\* a reconciliation that drops the deleted paths before it drops the duplicates
worker_reconcile_filter_first(k) ==
    LET t == threads[k]
    IN  /\ t.pc = "reconcile"
        /\ SetThread(k, [t EXCEPT
                !.deleted_paths = paths_of(deleted_games),
                !.filtered_games = unique_games(without_paths(t.games,
                                                              paths_of(deleted_games))),
                !.pc = "publish"])
        /\ UNCHANGED <<games, favorites, deleted_games, filtered_games, scanning,
                       favorites_file, deleted_file, cards, after_queue, startup, ncmds,
                       last_cmd, last_scan, fn_vars>>

\* duplicates are dropped, self.deleted_games is read and its paths dropped
worker_reconcile(k) ==
    LET t == threads[k]
    IN  /\ t.pc = "reconcile"
        /\ SetThread(k, [t EXCEPT
                !.deleted_paths = paths_of(deleted_games),
                !.filtered_games = without_paths(unique_games(t.games),
                                                 paths_of(deleted_games)),
                !.pc = "publish"])
        /\ UNCHANGED <<games, favorites, deleted_games, filtered_games, scanning,
                       favorites_file, deleted_file, cards, after_queue, startup, ncmds,
                       last_cmd, last_scan, fn_vars>>

\* what the history records of a publication by pass k: the deleted paths
\* the pass read, the list it published, and whether the publication before
\* it had read the same deleted paths
Published(k, deleted_paths, result) ==
    [pass |-> k, deleted_paths |-> deleted_paths, result |-> result,
     repeated |-> /\ last_scan.pass > 0
                  /\ Range(deleted_paths) = Range(last_scan.deleted_paths)]

\* the publication that adds the pass's games to self.games
worker_publish_additive(k) ==
    LET t == threads[k]
    IN  /\ t.pc = "publish"
        /\ games' = sorted_by_name(games \o t.filtered_games)
        /\ last_scan' = Published(k, t.deleted_paths, games')
        /\ SetThread(k, [t EXCEPT !.pc = "copy"])
        /\ UNCHANGED <<favorites, deleted_games, filtered_games, scanning,
                       favorites_file, deleted_file, cards, after_queue, startup, ncmds,
                       last_cmd, fn_vars>>

\* a publication that keeps the entries of self.games the pass did not find
worker_publish_keeping_old(k) ==
    LET t == threads[k]
    IN  /\ t.pc = "publish"
        /\ games' = sorted_by_name(
                        t.filtered_games
                            \o without_paths(games, paths_of(t.filtered_games)))
        /\ last_scan' = Published(k, t.deleted_paths, games')
        /\ SetThread(k, [t EXCEPT !.pc = "copy"])
        /\ UNCHANGED <<favorites, deleted_games, filtered_games, scanning,
                       favorites_file, deleted_file, cards, after_queue, startup, ncmds,
                       last_cmd, fn_vars>>

\* self.games = sorted(filtered_games, ...)
worker_publish(k) ==
    LET t == threads[k]
    IN  /\ t.pc = "publish"
        /\ games' = sorted_by_name(t.filtered_games)
        /\ last_scan' = Published(k, t.deleted_paths, games')
        /\ SetThread(k, [t EXCEPT !.pc = "copy"])
        /\ UNCHANGED <<favorites, deleted_games, filtered_games, scanning,
                       favorites_file, deleted_file, cards, after_queue, startup, ncmds,
                       last_cmd, fn_vars>>

\* self.filtered_games = self.games.copy()
worker_copy(k) ==
    LET t == threads[k]
    IN  /\ t.pc = "copy"
        /\ filtered_games' = games
        /\ SetThread(k, [t EXCEPT !.pc = "notify"])
        /\ UNCHANGED <<games, favorites, deleted_games, scanning,
                       favorites_file, deleted_file, cards, after_queue, startup, ncmds,
                       last_cmd, last_scan, fn_vars>>

\* self.root.after(0, self.update_game_lists)
worker_notify(k) ==
    LET t == threads[k]
    IN  /\ t.pc = "notify"
        /\ after_queue' = Append(after_queue, Msg(k, "update", 0))
        /\ SetThread(k, [t EXCEPT !.pc = "finally"])
        /\ UNCHANGED <<games, favorites, deleted_games, filtered_games, scanning,
                       favorites_file, deleted_file, cards, startup, ncmds,
                       last_cmd, last_scan, fn_vars>>

\* except Exception: the error status callback is scheduled
worker_except(k) ==
    LET t == threads[k]
    IN  /\ t.pc = "except"
        /\ after_queue' = Append(after_queue, Msg(k, "error", 0))
        /\ SetThread(k, [t EXCEPT !.pc = "finally"])
        /\ UNCHANGED <<games, favorites, deleted_games, filtered_games, scanning,
                       favorites_file, deleted_file, cards, startup, ncmds,
                       last_cmd, last_scan, fn_vars>>

\* the end of scan_for_games with the reset of self.scanning only on success
worker_finally_on_success(k) ==
    LET t == threads[k]
    IN  /\ t.pc = "finally"
        /\ scanning' = IF \E i \in 1..Len(after_queue) :
                            after_queue[i] = Msg(k, "error", 0)
                       THEN scanning ELSE FALSE
        /\ SetThread(k, [t EXCEPT !.pc = "clear"])
        /\ UNCHANGED <<games, favorites, deleted_games, filtered_games,
                       favorites_file, deleted_file, cards, after_queue, startup, ncmds,
                       last_cmd, last_scan, fn_vars>>

\* finally: self.scanning = False
worker_finally(k) ==
    LET t == threads[k]
    IN  /\ t.pc = "finally"
        /\ scanning' = FALSE
        /\ SetThread(k, [t EXCEPT !.pc = "clear"])
        /\ UNCHANGED <<games, favorites, deleted_games, filtered_games,
                       favorites_file, deleted_file, cards, after_queue, startup, ncmds,
                       last_cmd, last_scan, fn_vars>>

\* finally: the callback that clears the progress text is scheduled
worker_clear(k) ==
    LET t == threads[k]
    IN  /\ t.pc = "clear"
        /\ after_queue' = Append(after_queue, Msg(k, "clear", 0))
        /\ SetThread(k, DoneThread)
        /\ UNCHANGED <<games, favorites, deleted_games, filtered_games, scanning,
                       favorites_file, deleted_file, cards, startup, ncmds,
                       last_cmd, last_scan, fn_vars>>

\* one step of worker k
scan_for_games(k) ==
    \/ worker_scan_root(k)
    \/ worker_registry(k)
    \/ worker_reconcile(k)
    \/ worker_publish(k)
    \/ worker_copy(k)
    \/ worker_notify(k)
    \/ worker_except(k)
    \/ worker_finally(k)
    \/ worker_clear(k)

(***************************************************************************)
(* User commands, run on the interactive context                           *)
(***************************************************************************)
\* toggle_favorite without the call of save_favorites
toggle_favorite_unsaved(game) ==
    LET favorite_names == {favorites[i].name : i \in 1..Len(favorites)}
        fav == IF game.name \in favorite_names
               THEN without_name(favorites, game.name)
               ELSE Append(favorites, game)
    IN  /\ ncmds < MaxCmds
        /\ ncmds' = ncmds + 1
        /\ last_cmd' = "toggle"
        /\ update_game_lists(filtered_games, fav, deleted_games)
        /\ UNCHANGED <<games, deleted_games, filtered_games, scanning, favorites_file,
                       deleted_file, after_queue, threads, startup, last_scan, fn_vars>>

\* the star button of a card
toggle_favorite(game) ==
    LET favorite_names == {favorites[i].name : i \in 1..Len(favorites)}
        fav == IF game.name \in favorite_names
               THEN without_name(favorites, game.name)
               ELSE Append(favorites, game)
    IN  /\ ncmds < MaxCmds
        /\ ncmds' = ncmds + 1
        /\ last_cmd' = "toggle"
        /\ favorites_file' = fav
        /\ update_game_lists(filtered_games, fav, deleted_games)
        /\ UNCHANGED <<games, deleted_games, filtered_games, scanning,
                       deleted_file, after_queue, threads, startup, last_scan, fn_vars>>

\* the bin button of a card; result: the answer to the confirmation dialog
delete_game(game, result) ==
    IF ~result THEN UNCHANGED vars
    ELSE LET del == Append(deleted_games, game)
             fav == without_path(favorites, game.path)
             flt == without_path(filtered_games, game.path)
         IN  /\ ncmds < MaxCmds
             /\ ncmds' = ncmds + 1
             /\ last_cmd' = "delete"
             /\ deleted_games' = del
             /\ games' = without_path(games, game.path)
             /\ filtered_games' = flt
             /\ deleted_file' = del
             /\ favorites_file' = fav
             /\ update_game_lists(flt, fav, del)
             /\ UNCHANGED <<scanning, after_queue, threads, startup, last_scan, fn_vars>>

\* restore_game without the sort of self.games
restore_game_unsorted(game) ==
    LET del == without_path(deleted_games, game.path)
        all == Append(games, game)
    IN  /\ ncmds < MaxCmds
        /\ ncmds' = ncmds + 1
        /\ last_cmd' = "restore"
        /\ deleted_games' = del
        /\ games' = all
        /\ filtered_games' = all
        /\ deleted_file' = del
        /\ update_game_lists(all, favorites, del)
        /\ UNCHANGED <<scanning, favorites_file, after_queue, threads, startup,
                       last_scan, fn_vars>>

\* restore_game that also calls save_favorites
restore_game_saving_favorites(game) ==
    LET del == without_path(deleted_games, game.path)
        all == sorted_by_name(Append(games, game))
    IN  /\ ncmds < MaxCmds
        /\ ncmds' = ncmds + 1
        /\ last_cmd' = "restore"
        /\ deleted_games' = del
        /\ games' = all
        /\ filtered_games' = all
        /\ deleted_file' = del
        /\ favorites_file' = favorites
        /\ update_game_lists(all, favorites, del)
        /\ UNCHANGED <<scanning, after_queue, threads, startup, last_scan, fn_vars>>

\* the restore button of a card of the deleted tab; the search box is empty,
\* so filter_games leaves filtered_games a copy of games
restore_game(game) ==
    LET del == without_path(deleted_games, game.path)
        all == sorted_by_name(Append(games, game))
    IN  /\ ncmds < MaxCmds
        /\ ncmds' = ncmds + 1
        /\ last_cmd' = "restore"
        /\ deleted_games' = del
        /\ games' = all
        /\ filtered_games' = all
        /\ deleted_file' = del
        /\ update_game_lists(all, favorites, del)
        /\ UNCHANGED <<scanning, favorites_file, after_queue, threads, startup,
                       last_scan, fn_vars>>

\* the merge loop of add_custom_path without its test against existing_paths
merge_new_untested(all, new_games, existing_paths, k) == all \o new_games

RECURSIVE merge_new(_, _, _, _)
\* the games list after the merge loop of add_custom_path, from candidate k on
merge_new(all, new_games, existing_paths, k) ==
    IF k > Len(new_games) THEN all
    ELSE merge_new(IF new_games[k].path \notin Range(existing_paths)
                   THEN Append(all, new_games[k]) ELSE all,
                   new_games, existing_paths, k + 1)

\* the Add Custom Path button; directory: the answer of the directory dialog
add_custom_path(directory) ==
    LET found == CustomCandidates[directory]
        new_games == without_paths(found, paths_of(deleted_games))
        all == sorted_by_name(merge_new(games, new_games, paths_of(games), 1))
    IN  IF directory = "" THEN UNCHANGED vars
        ELSE /\ ncmds < MaxCmds
             /\ ncmds' = ncmds + 1
             /\ last_cmd' = "custom"
             /\ IF found # <<>>
                THEN /\ games' = all
                     /\ filtered_games' = all
                     /\ update_game_lists(all, favorites, deleted_games)
                ELSE UNCHANGED <<games, filtered_games, favorites, cards>>
             /\ UNCHANGED <<deleted_games, scanning, favorites_file, deleted_file,
                            after_queue, threads, startup, last_scan, fn_vars>>

(***************************************************************************)
(* Specifications                                                          *)
(***************************************************************************)
\* the cards with a star button, with a bin button, with a restore button
StarCards == cards.all \cup cards.favorites \cup cards.deleted

BinCards == cards.all \cup cards.favorites

RestoreCards == cards.deleted

ToggleCmd == \E game \in StarCards : toggle_favorite(game)

DeleteCmd == \E game \in BinCards : \E result \in BOOLEAN : delete_game(game, result)

RestoreCmd == \E game \in RestoreCards : restore_game(game)

CustomPathCmd == \E directory \in CustomDirs : add_custom_path(directory)

WorkerStep == \E k \in 1..Len(threads) : scan_for_games(k)

Next ==
    \/ startup_scan
    \/ refresh_games
    \/ run_callback
    \/ WorkerStep
    \/ ToggleCmd
    \/ DeleteCmd
    \/ RestoreCmd
    \/ CustomPathCmd

\* the launcher with the worker and the interactive context interleaved
Spec == Init /\ [][Next]_vars

\* no pass is running and no callback is pending
Quiescent ==
    /\ after_queue = <<>>
    /\ \A k \in 1..Len(threads) : threads[k].pc = "done"

SeqToggleCmd == Quiescent /\ ToggleCmd

SeqDeleteCmd == Quiescent /\ DeleteCmd

SeqRestoreCmd == Quiescent /\ RestoreCmd

SeqCustomPathCmd == Quiescent /\ CustomPathCmd

SeqNext ==
    \/ startup_scan
    \/ refresh_games
    \/ run_callback
    \/ WorkerStep
    \/ SeqToggleCmd
    \/ SeqDeleteCmd
    \/ SeqRestoreCmd
    \/ SeqCustomPathCmd

\* the launcher when the user issues commands only between passes, after the
\* callbacks of the last pass have run
SpecSeq == Init /\ [][SeqNext]_vars

\* the worker threads are scheduled: while some worker can take a step, a
\* worker eventually takes one
Fairness == WF_vars(WorkerStep)

\* the launcher with its worker threads scheduled fairly
LiveSpec == Init /\ [][Next]_vars /\ Fairness

(***************************************************************************)
(* The duplicate removal of scan_for_games on its own                      *)
(***************************************************************************)
\* candidates: three names, two of them with one key, at two paths
CandidatePool ==
    {GameEntry("HA DES", "D:\\games\\Hades\\game.exe"),
     GameEntry("Hades", "D:\\games\\Hades\\game.exe"),
     GameEntry("Hades", "E:\\Steam\\steamapps\\common\\Hades\\game.exe"),
     GameEntry("Doom", "D:\\games\\Hades\\game.exe")}

CandidateLists == UNION {[1..n -> CandidatePool] : n \in 0..MaxCands}

\* games after the loop over the roots and after games.extend(registry_games),
\* then the loop that fills unique_games
dedup_candidates(root_games, registry_games) == unique_games(root_games \o registry_games)

DedupInit ==
    /\ LauncherStart([favorites |-> <<>>, deleted |-> <<>>])
    /\ fn_in \in [root : CandidateLists, registry : CandidateLists]
    /\ fn_out = NoCall

dedup_call ==
    /\ ~fn_out.done
    /\ fn_out' = [done |-> TRUE, value |-> dedup_candidates(fn_in.root, fn_in.registry)]
    /\ UNCHANGED <<games, favorites, deleted_games, filtered_games, scanning,
                   favorites_file, deleted_file, cards, after_queue, threads, startup,
                   ncmds, last_cmd, last_scan, fn_in>>

SpecDedup == DedupInit /\ [][dedup_call]_vars

(***************************************************************************)
(* scan_directory_deep on its own                                          *)
(***************************************************************************)
\* the roots of the deep scans: a root of game_dirs, a directory picked in
\* the dialog, a drive picked in the dialog
DeepRoots == {"D:\\games", "D:/games", "D:/"}

\* the names of the nested directories, outermost first
LevelNames == <<"one", "two", "three", "four", "five", "six">>

RECURSIVE level_path(_, _)
\* the directory k levels below root, as os.walk names it
level_path(root, k) ==
    IF k = 0 THEN root ELSE join(level_path(root, k - 1), LevelNames[k])

\* a chain of MaxDepth nested directories below root; the directories at the
\* levels in levels hold doom.exe
ChainTree(root, levels) ==
    [p \in {NormPath(level_path(root, k)) : k \in 0..MaxDepth} |->
        LET k == CHOOSE j \in 0..MaxDepth : NormPath(level_path(root, j)) = p
        IN  DirRec(IF k < MaxDepth THEN <<LevelNames[k + 1]>> ELSE <<>>,
                   IF k \in levels THEN <<"doom.exe">> ELSE <<>>,
                   TRUE)]

DeepInit ==
    /\ LauncherStart([favorites |-> <<>>, deleted |-> <<>>])
    /\ \E root \in DeepRoots, levels \in SUBSET (0..MaxDepth) :
        fn_in = [fs |-> ChainTree(root, levels), directory |-> root, levels |-> levels]
    /\ fn_out = NoCall

deep_call ==
    /\ ~fn_out.done
    /\ fn_out' = [done |-> TRUE,
                  value |-> scan_directory_deep(fn_in.fs, fn_in.directory, <<>>)]
    /\ UNCHANGED <<games, favorites, deleted_games, filtered_games, scanning,
                   favorites_file, deleted_file, cards, after_queue, threads, startup,
                   ncmds, last_cmd, last_scan, fn_in>>

SpecDeep == DeepInit /\ [][deep_call]_vars

(***************************************************************************)
(* add_custom_path on its own                                              *)
(***************************************************************************)
\* the entries a full scan publishes, then the entries the deep scans of the
\* dialog's directories find
AdHocPool ==
    unique_games(RootCandidates[1] \o RootCandidates[2] \o RegistryCandidates)
        \o CustomCandidates["D:/games"]
        \o CustomCandidates["E:/Steam/steamapps/common"]

\* the lists as full scans, ad hoc scans, deletes and restores leave them:
\* self.games sorted, each entry of the pool listed, deleted or in neither
AdHocInit ==
    /\ \E G \in SUBSET Range(AdHocPool) : \E D \in SUBSET (Range(AdHocPool) \ G) :
          /\ games = sorted_by_name(SelectSeq(AdHocPool, LAMBDA g : g \in G))
          /\ deleted_games = SelectSeq(AdHocPool, LAMBDA g : g \in D)
    /\ filtered_games = games
    /\ deleted_file = deleted_games
    /\ favorites = <<>>
    /\ favorites_file = <<>>
    /\ cards = [all |-> Range(games), favorites |-> {}, deleted |-> Range(deleted_games)]
    /\ scanning = FALSE
    /\ after_queue = <<>>
    /\ threads = <<>>
    /\ startup = FALSE
    /\ ncmds = 0
    /\ last_cmd = "none"
    /\ last_scan = [pass |-> 0, deleted_paths |-> <<>>, result |-> <<>>,
                    repeated |-> FALSE]
    /\ fn_in = [games |-> games, deleted_games |-> deleted_games]
    /\ fn_out = NoCall

AdHocCmd == \E directory \in DialogDirs : add_custom_path(directory)

SpecAdHoc == AdHocInit /\ [][AdHocCmd]_vars

(***************************************************************************)
(* scan_directory_shallow on its own                                       *)
(***************************************************************************)
\* the kinds of child directory: with one game; with two games; with an
\* installer before the game; with the game one level further down; with a
\* game at both levels; with a name is_likely_game_directory rejects; one
\* whose listing raises PermissionError
ChildKinds ==
    {"game", "two_games", "installer_first", "nested", "game_and_nested", "skipped",
     "locked"}

\* the name of child k
child_name(kind, k) ==
    IF kind = "skipped" THEN "Windows " \o LevelNames[k] ELSE LevelNames[k]

\* the files at the top level of a child
child_files(kind) ==
    CASE kind = "game" -> <<"minecraft.exe">>
      [] kind = "two_games" -> <<"readme.txt", "doom.exe", "halo.exe">>
      [] kind = "installer_first" -> <<"setup.exe", "hades.exe">>
      [] kind = "nested" -> <<"readme.txt">>
      [] kind = "game_and_nested" -> <<"doom.exe">>
      [] OTHER -> <<"minecraft.exe">>

\* a root that holds halo.exe and one child per entry of kinds; the nested
\* kinds hold halo.exe in a subdirectory named x64
ShallowTree(root, kinds) ==
    [p \in {NormPath(root)}
           \cup {NormPath(join(root, child_name(kinds[k], k))) : k \in 1..Len(kinds)}
           \cup {NormPath(join(join(root, child_name(kinds[k], k)), "x64")) :
                    k \in {j \in 1..Len(kinds) : kinds[j] \in {"nested", "game_and_nested"}}}
        |->
        IF p = NormPath(root)
        THEN DirRec([k \in 1..Len(kinds) |-> child_name(kinds[k], k)], <<"halo.exe">>, TRUE)
        ELSE IF \E k \in 1..Len(kinds) : p = NormPath(join(root, child_name(kinds[k], k)))
             THEN LET k == CHOOSE j \in 1..Len(kinds) :
                               p = NormPath(join(root, child_name(kinds[j], j)))
                  IN  DirRec(IF kinds[k] \in {"nested", "game_and_nested"}
                             THEN <<"x64">> ELSE <<>>,
                             child_files(kinds[k]),
                             kinds[k] # "locked")
             ELSE DirRec(<<>>, <<"halo.exe">>, TRUE)]

ShallowRoot == "C:\\Users\\GIGABYTE\\Desktop"

ShallowInit ==
    /\ LauncherStart([favorites |-> <<>>, deleted |-> <<>>])
    /\ \E n \in 0..MaxChildren : \E kinds \in [1..n -> ChildKinds] :
        fn_in = [fs |-> ShallowTree(ShallowRoot, kinds), directory |-> ShallowRoot,
                 kinds |-> kinds]
    /\ fn_out = NoCall

shallow_call ==
    /\ ~fn_out.done
    /\ fn_out' = [done |-> TRUE,
                  value |-> scan_directory_shallow(fn_in.fs, fn_in.directory, <<>>)]
    /\ UNCHANGED <<games, favorites, deleted_games, filtered_games, scanning,
                   favorites_file, deleted_file, cards, after_queue, threads, startup,
                   ncmds, last_cmd, last_scan, fn_in>>

SpecShallow == ShallowInit /\ [][shallow_call]_vars

(***************************************************************************)
(* is_likely_game on its own                                               *)
(***************************************************************************)
\* file names: installers, titles in several spellings, a title with a
\* blacklist term, names with neither
ClassifyFiles ==
    {"setup.exe", "Minecraft.exe", "mine-craft.exe", "Mine_Craft Setup.exe",
     "Hades Editor.exe", "DOOM_Test.exe", "game.exe", "Portal 2.exe", "launcher.exe"}

\* directories: with a title in the name, of a platform, custom, plain, and
\* in the forward-slash form of the directory dialog
ClassifyPaths ==
    {"D:\\games\\Hades - Copy", "C:\\Users\\GIGABYTE\\Desktop\\Windows Tools",
     "E:\\Steam\\steamapps\\common\\Terraria", "C:\\Program Files\\Epic Games\\Fort-Nite",
     "D:/games", "C:\\Games\\bin", "C:\\Temp", ""}

ClassifyInit ==
    /\ LauncherStart([favorites |-> <<>>, deleted |-> <<>>])
    /\ fn_in \in [filename : ClassifyFiles, path : ClassifyPaths]
    /\ fn_out = NoCall

classify_call ==
    /\ ~fn_out.done
    /\ fn_out' = [done |-> TRUE, value |-> is_likely_game(fn_in.filename, fn_in.path)]
    /\ UNCHANGED <<games, favorites, deleted_games, filtered_games, scanning,
                   favorites_file, deleted_file, cards, after_queue, threads, startup,
                   ncmds, last_cmd, last_scan, fn_in>>

SpecClassify == ClassifyInit /\ [][classify_call]_vars

(***************************************************************************)
(* A second pass with the lists of the first one shown                     *)
(***************************************************************************)
\* the launcher just after Scan Games was clicked, the pass started at
\* startup having completed and its callbacks having run
RescanInit ==
    /\ \E doc \in StartDocuments :
          /\ favorites_file = doc.favorites
          /\ deleted_file = doc.deleted
          /\ deleted_games = doc.deleted
          /\ favorites = populate_favorites_list(doc.favorites, doc.deleted)
          /\ games = sorted_by_name(without_paths(
                         unique_games(RootCandidates[1] \o RootCandidates[2]
                                          \o RegistryCandidates),
                         paths_of(doc.deleted)))
    /\ filtered_games = games
    /\ cards = [all |-> Range(games), favorites |-> Range(favorites),
                deleted |-> Range(deleted_games)]
    /\ scanning = TRUE
    /\ after_queue = <<Msg(2, "status_scanning", 0), Msg(2, "progress_init", 0)>>
    /\ threads = <<DoneThread, NewThread>>
    /\ startup = FALSE
    /\ ncmds = 0
    /\ last_cmd = "none"
    /\ last_scan = [pass |-> 1, deleted_paths |-> paths_of(deleted_games),
                    result |-> games, repeated |-> FALSE]
    /\ fn_in = <<>>
    /\ fn_out = NoCall

\* the worker, the callbacks and the commands of the cards
RescanNext ==
    \/ run_callback
    \/ WorkerStep
    \/ ToggleCmd
    \/ DeleteCmd
    \/ RestoreCmd
    \/ CustomPathCmd

SpecRescan == RescanInit /\ [][RescanNext]_vars

(***************************************************************************)
(* Properties                                                              *)
(***************************************************************************)
DeletedPaths == Range(paths_of(deleted_games))

\* the three tabs show the lists as they are and nothing is pending: the
\* state after the list refresh of a command or of a completed pass
ListsRefreshed ==
    /\ Quiescent
    /\ cards = [all |-> Range(filtered_games),
                favorites |-> Range(favorites),
                deleted |-> Range(deleted_games)]

\* C1 (SpecSeq) - deletion suppression: once the list refresh of a command or
\* of a completed pass has run, no entry of games and no entry of favorites has
\* the path of an entry of deleted_games
DeletionSuppression ==
    ListsRefreshed =>
        /\ \A i \in 1..Len(games) : games[i].path \notin DeletedPaths
        /\ \A i \in 1..Len(favorites) : favorites[i].path \notin DeletedPaths

\* a pass has published, the lists are refreshed, and an entry that is in the
\* favorites document has the path of a deleted entry
DeletionSuppressionWitness ==
    /\ ListsRefreshed
    /\ last_scan.pass > 0
    /\ games # <<>>
    /\ \E i \in 1..Len(favorites_file) : favorites_file[i].path \in DeletedPaths

\* the passes that have not yet reset self.scanning
InFlight == {k \in 1..Len(threads) : threads[k].pc \notin {"clear", "done"}}

\* C2 (Spec) - re-entrancy guard: at most one pass is in flight after every
\* step, and a step of scan_games_thread or refresh_games taken while scanning
\* starts no worker, schedules no callback and changes no list
ReentrancyGuard ==
    [][/\ Cardinality(InFlight') <= 1
       /\ (scanning' <=> InFlight' # {})
       /\ (scanning /\ (startup_scan \/ refresh_games)) =>
              UNCHANGED <<games, favorites, deleted_games, filtered_games, scanning,
                          favorites_file, deleted_file, cards, after_queue, threads,
                          ncmds>>]_vars

\* the startup timer has fired while the pass started by the Scan Games
\* button was in flight: one pass, one user operation, nothing published
ReentrancyGuardWitness ==
    /\ ~startup
    /\ scanning
    /\ Len(threads) = 1
    /\ ncmds = 1
    /\ last_cmd = "none"
    /\ InFlight = {1}

\* C3 (LiveSpec) - every pass that enters Scanning returns to Idle
ScanTerminates == scanning ~> ~scanning

\* a pass that failed with an internal error has reset self.scanning
ScanTerminatesWitness ==
    /\ ~scanning
    /\ \E i \in 1..Len(after_queue) : after_queue[i].kind = "error"


\* C4 (Spec) - name-key uniqueness: no two entries of games have the same
\* normalized name key
NameKeysUnique ==
    \A i, j \in 1..Len(games) : name_key(games[i]) = name_key(games[j]) => i = j

\* q is in ascending order of the lower-cased names
SortedByName(q) ==
    \A i, j \in 1..Len(q) : i < j => ~str_lt(lower(q[j].name), lower(q[i].name))

\* C5 (Spec) - sortedness: games is in ascending order of the names compared
\* case-insensitively, in every state
Sortedness == SortedByName(games)

\* an ad hoc scan has added an entry, and the list is not in the order of
\* the names compared as they are: a lower-case name precedes a capital
SortednessWitness ==
    /\ last_cmd = "custom"
    /\ Len(games) = 4
    /\ \E i, j \in 1..Len(games) : i < j /\ str_lt(games[j].name, games[i].name)

\* C6 (SpecDedup) - dedup precedence: each key of the candidates survives in
\* exactly one entry, that entry is the first candidate with the key in input
\* order, the survivors keep their input order, and so a root candidate wins
\* over a registry candidate of the same key whatever the paths
DedupPrecedence ==
    fn_out.done =>
        \A cands \in {fn_in.root \o fn_in.registry}, out \in {fn_out.value} :
        \A firsts \in {{i \in 1..Len(cands) :
                          \A j \in 1..(i - 1) : name_key(cands[j]) # name_key(cands[i])}} :
            /\ Len(out) = Cardinality(firsts)
            /\ \A i \in firsts :
                out[Cardinality({j \in firsts : j <= i})] = cands[i]
            /\ \A r \in 1..Len(fn_in.root), g \in 1..Len(fn_in.registry) :
                name_key(fn_in.root[r]) = name_key(fn_in.registry[g]) =>
                    /\ \E i \in 1..Len(out) :
                        /\ out[i] \in Range(fn_in.root)
                        /\ name_key(out[i]) = name_key(fn_in.root[r])
                    /\ \A i, j \in 1..Len(out) :
                        name_key(out[i]) = name_key(out[j]) => i = j

\* a root candidate and a registry candidate with one key, different names
\* and different paths went in, and the root candidate alone came out
DedupPrecedenceWitness ==
    /\ fn_out.done
    /\ fn_in.root = <<GameEntry("HA DES", "D:\\games\\Hades\\game.exe")>>
    /\ fn_in.registry =
         <<GameEntry("Hades", "E:\\Steam\\steamapps\\common\\Hades\\game.exe"),
           GameEntry("Doom", "D:\\games\\Hades\\game.exe")>>
    /\ fn_out.value = <<GameEntry("HA DES", "D:\\games\\Hades\\game.exe"),
                        GameEntry("Doom", "D:\\games\\Hades\\game.exe")>>

\* C7 (Spec) - scan idempotence: a pass that publishes after having read the
\* deleted paths the publication before it had read, publishes the list that
\* publication published
ScanIdempotence ==
    [][\A k \in 1..Len(threads) :
          (/\ worker_publish(k)
           /\ last_scan.pass > 0
           /\ Range(threads[k].deleted_paths) = Range(last_scan.deleted_paths))
          => games' = last_scan.result]_vars

\* the second pass has published three games after the first pass had
\* published with the same deleted paths
ScanIdempotenceWitness ==
    /\ last_scan.pass = 2
    /\ last_scan.repeated
    /\ games = last_scan.result
    /\ Len(games) = 3

\* whether doom.exe of the directory k levels below the root is a candidate
Emitted(k) ==
    \E i \in 1..Len(fn_out.value) :
        fn_out.value[i].path = join(level_path(fn_in.directory, k), "doom.exe")

\* whether the root of the deep scan ends in a separator
RootEndsInSep == IsSep(CharAt(fn_in.directory, Len(fn_in.directory)))

\* C8 as stated (SpecDeep): an executable whose directory is 2 levels below
\* the root is emitted and one whose directory is 3 levels below is not
DepthBoundAsStated ==
    fn_out.done =>
        /\ 2 \in fn_in.levels => Emitted(2)
        /\ 3 \in fn_in.levels => ~Emitted(3)

\* C8 (SpecDeep) - deep-scan depth bound: for a root that does not end in a
\* separator, an executable whose directory is at most 3 levels below the
\* root is emitted and one whose directory is 4 or more levels below is not
DepthBound ==
    (fn_out.done /\ ~RootEndsInSep) =>
        \A k \in fn_in.levels :
            /\ k <= 3 => Emitted(k)
            /\ k >= 4 => ~Emitted(k)

\* a scan of D:\games with doom.exe at every level: the one 3 levels below
\* is emitted, the one 4 levels below is not
DepthBoundWitness ==
    /\ fn_out.done
    /\ fn_in.directory = "D:\\games"
    /\ fn_in.levels = 0..MaxDepth
    /\ Emitted(2)
    /\ Emitted(3)
    /\ ~Emitted(4)

\* C9 (Spec) - restore round-trip: a step of restore_game leaves no entry
\* with the path of the restored entry in deleted_games and the other entries
\* of deleted_games in place, inserts the identical entry into games at one
\* position with the other entries in place, leaves games sorted, and starts
\* no pass and schedules no callback
RestoreRoundTrip ==
    [][\A game \in RestoreCards :
          restore_game(game) =>
            /\ \A i \in 1..Len(deleted_games') : deleted_games'[i].path # game.path
            /\ \A i \in 1..Len(deleted_games) :
                deleted_games[i].path # game.path => deleted_games[i] \in Range(deleted_games')
            /\ Len(games') = Len(games) + 1
            /\ \E p \in 1..Len(games') :
                /\ games'[p] = game
                /\ SubSeq(games', 1, p - 1) \o SubSeq(games', p + 1, Len(games')) = games
            /\ SortedByName(games')
            /\ UNCHANGED <<scanning, threads, after_queue>>]_vars

\* Hades, deleted before the launch, has been restored between among us and
\* Terraria, and nothing is left in deleted_games
RestoreRoundTripWitness ==
    /\ last_cmd = "restore"
    /\ deleted_games = <<>>
    /\ deleted_file = <<>>
    /\ Len(games) = 3
    /\ games[2] = GameEntry("Hades", "D:\\games\\Hades - Copy\\Hades.exe")

\* C10 as stated (Spec): the favorites document changes only in a step of
\* toggle_favorite
FavoritesOnlyByToggle ==
    [][favorites_file' # favorites_file =>
          /\ ncmds' = ncmds + 1
          /\ last_cmd' = "toggle"]_vars

\* C10 (Spec) - the favorites document changes only in a step of
\* toggle_favorite or of delete_game; restore, the passes, the ad hoc scan
\* and the list refresh leave it unchanged
FavoritesFrame ==
    [][favorites_file' # favorites_file =>
          /\ ncmds' = ncmds + 1
          /\ last_cmd' \in {"toggle", "delete"}]_vars

\* a delete has run after a launch with Hades deleted and starred: the
\* document that held Hades at startup is now empty
FavoritesFrameWitness ==
    /\ last_cmd = "delete"
    /\ ncmds = 1
    /\ Len(deleted_games) = 2
    /\ favorites_file = <<>>

\* C11 as stated (Spec): after a toggle, a delete or a restore the favorites
\* document equals self.favorites and the deleted document equals
\* self.deleted_games
PersistenceAgreement ==
    last_cmd \in {"toggle", "delete", "restore"} =>
        /\ favorites_file = favorites
        /\ deleted_file = deleted_games

\* C11 (Spec) - after a toggle, a delete or a restore the deleted document
\* equals self.deleted_games; after a toggle or a delete self.favorites is the
\* favorites document without the entries whose path is deleted; after a
\* restore self.favorites is the favorites document without some entries
OverridesPersisted ==
    /\ last_cmd \in {"toggle", "delete", "restore"} => deleted_file = deleted_games
    /\ last_cmd \in {"toggle", "delete"} =>
           favorites = without_paths(favorites_file, paths_of(deleted_games))
    /\ last_cmd = "restore" =>
           favorites = SelectSeq(favorites_file, LAMBDA f : f \in Range(favorites))

\* the star of a card in the deleted tab was clicked: the document holds the
\* new favorite and the refresh has dropped it from self.favorites
OverridesPersistedWitness ==
    /\ last_cmd = "toggle"
    /\ favorites_file # <<>>
    /\ favorites = <<>>
    /\ deleted_file = deleted_games

\* C12 as stated (Spec): no step of the worker and no callback of a pass
\* changes self.favorites or self.deleted_games, and the two change only in
\* a toggle, a delete or a restore
OverridesOnlyByCommands ==
    [][/\ (WorkerStep \/ run_callback) => UNCHANGED <<favorites, deleted_games>>
       /\ (favorites' # favorites \/ deleted_games' # deleted_games) =>
              /\ ncmds' = ncmds + 1
              /\ last_cmd' \in {"toggle", "delete", "restore"}]_vars

\* C12 (Spec) - no step of the worker changes self.favorites or
\* self.deleted_games; a callback of a pass leaves self.deleted_games alone
\* and changes self.favorites only by dropping the entries whose path is
\* deleted; self.deleted_games changes only in a delete or a restore
ScanLeavesOverrides ==
    [][/\ (favorites' # favorites \/ deleted_games' # deleted_games) => ~WorkerStep
       /\ deleted_games' # deleted_games => ~run_callback
       /\ (favorites' # favorites /\ run_callback) =>
              favorites' = without_paths(favorites, paths_of(deleted_games))
       /\ deleted_games' # deleted_games =>
              /\ ncmds' = ncmds + 1
              /\ last_cmd' \in {"delete", "restore"}]_vars

\* the launcher started with Hades starred and deleted, no command has run,
\* and the completion callback of a pass has emptied self.favorites while
\* self.deleted_games is as loaded
ScanLeavesOverridesWitness ==
    /\ last_cmd = "none"
    /\ last_scan.pass > 0
    /\ cards.all # {}
    /\ favorites = <<>>
    /\ favorites_file # <<>>
    /\ deleted_games = deleted_file
    /\ deleted_games # <<>>

\* C13 (SpecAdHoc) - add_custom_path keeps every entry of self.games, and
\* the entries it adds are exactly the deep-scan candidates of the chosen
\* directory whose path is neither in self.games nor in self.deleted_games,
\* each once
AdHocAdditive ==
    [][\A directory \in DialogDirs \ {""} :
          add_custom_path(directory) =>
              \A added \in {{c \in Range(CustomCandidates[directory]) :
                                /\ c.path \notin Range(paths_of(games))
                                /\ c.path \notin Range(paths_of(deleted_games))}} :
                  /\ Range(games) \subseteq Range(games')
                  /\ Range(games') \ Range(games) = added
                  /\ Len(games') = Len(games) + Cardinality(added)]_vars

\* the Steam library was picked while the three games of a full scan were
\* listed and the Hades of an earlier ad hoc scan was deleted: the three are
\* kept and the library's HADES is added
AdHocAdditiveWitness ==
    /\ last_cmd = "custom"
    /\ ncmds = 1
    /\ Len(fn_in.games) = 3
    /\ Len(games) = 4
    /\ Range(fn_in.games) \subseteq Range(games)
    /\ Range(CustomCandidates["E:/Steam/steamapps/common"]) # {}
    /\ Range(CustomCandidates["E:/Steam/steamapps/common"])
           = Range(games) \ Range(fn_in.games)
    /\ Range(CustomCandidates["D:/games"]) \subseteq Range(deleted_games)

\* C14 as stated (Spec): whatever fails in the iteration of one root, the
\* pass leaves the loop only after the last root, and a pass that has reset
\* self.scanning has published the candidates of its roots
FailureIsolation ==
    \A k \in 1..Len(threads) :
        /\ threads[k].pc \notin {"loop", "done"} => threads[k].i = Len(game_dirs) + 1
        /\ threads[k].pc \in {"clear", "done"} => last_scan.pass >= k

\* the kinds of child that are admissible and whose listing shows a qualifying
\* executable, and the executable the scan meets first in each
EmittingKinds == {"game", "two_games", "installer_first", "game_and_nested"}

FirstGame(kind) ==
    CASE kind = "game" -> "minecraft.exe"
      [] kind = "two_games" -> "doom.exe"
      [] kind = "installer_first" -> "hades.exe"
      [] OTHER -> "doom.exe"

\* C15 (SpecShallow) - shallow-scan cardinality: with N children that pass
\* is_likely_game_directory and whose listing shows at least one qualifying
\* executable, scan_directory_shallow emits N candidates, for each such child
\* exactly one, the first qualifying file of its top level; nothing is emitted
\* for the files of the root, of a subdirectory of a child, of a rejected
\* child or of a child that cannot be listed
ShallowCardinality ==
    fn_out.done =>
        \A kinds \in {fn_in.kinds}, out \in {fn_out.value} :
            \A good \in {{k \in 1..Len(kinds) : kinds[k] \in EmittingKinds}} :
                /\ Len(out) = Cardinality(good)
                /\ \A k \in good :
                      Cardinality({i \in 1..Len(out) :
                          out[i].path = join(join(ShallowRoot, child_name(kinds[k], k)),
                                             FirstGame(kinds[k]))}) = 1
                /\ \A i \in 1..Len(out) : \E k \in good :
                      out[i].path = join(join(ShallowRoot, child_name(kinds[k], k)),
                                         FirstGame(kinds[k]))

\* a root with a child that holds two games and a child that holds its game
\* one level down was scanned: one candidate, doom.exe of the first child
ShallowCardinalityWitness ==
    /\ fn_out.done
    /\ "kinds" \in DOMAIN fn_in
    /\ fn_in.kinds = <<"two_games", "nested">>
    /\ Len(fn_out.value) = 1
    /\ fn_out.value[1].path = "C:\\Users\\GIGABYTE\\Desktop\\one\\doom.exe"

\* C16 (SpecClassify) - classifier rule order: is_likely_game is false when
\* the normalized file name contains a blacklist term, whatever the path and
\* whatever titles are present; otherwise it is true when the normalized file
\* name or the normalized path contains a popular title; so setup.exe is
\* false and Minecraft.exe and mine-craft.exe are true for every path
ClassifierRuleOrder ==
    fn_out.done =>
        \A f \in {clean(fn_in.filename)}, p \in {clean(fn_in.path)} :
            /\ any_in(blacklist, f) => fn_out.value = FALSE
            /\ (~any_in(blacklist, f) /\ (any_in(popular_games, f) \/ any_in(popular_games, p)))
                   => fn_out.value = TRUE
            /\ fn_in.filename = "setup.exe" => fn_out.value = FALSE
            /\ fn_in.filename \in {"Minecraft.exe", "mine-craft.exe"} => fn_out.value = TRUE

\* a file named after a title and an installer, in a directory named after a
\* title, was classified: not a game
ClassifierRuleOrderWitness ==
    /\ fn_out.done
    /\ "filename" \in DOMAIN fn_in
    /\ fn_in.filename = "Mine_Craft Setup.exe"
    /\ fn_in.path = "D:\\games\\Hades - Copy"
    /\ fn_out.value = FALSE

\* C17 as stated (SpecRescan): whatever the interleaving of a delete with the
\* steps of the worker, once the pass is over and the lists are refreshed no
\* entry of games has the path of an entry of deleted_games
InterleavedDeleteSuppressed ==
    ListsRefreshed => \A i \in 1..Len(games) : games[i].path \notin DeletedPaths

\* C18 as stated (Spec): the callbacks are run in the order of their
\* scheduling, and no callback of a pass is scheduled behind a callback of a
\* later pass
StreamsDoNotInterleave ==
    \A i, j \in 1..Len(after_queue) :
        i < j => after_queue[i].pass <= after_queue[j].pass

\* C19 (Spec) - deduplication runs before deletion suppression: when a pass
\* publishes, a key whose first candidate in input order has a path among the
\* deleted paths the pass read is the key of no published entry, also when a
\* later candidate of that key has a path that is not deleted
DedupBeforeSuppression ==
    [][\A k \in 1..Len(threads) :
          worker_publish(k) =>
              \A cands \in {threads[k].games}, del \in {Range(threads[k].deleted_paths)} :
                  \A i \in 1..Len(cands) :
                      (/\ \A j \in 1..(i - 1) : name_key(cands[j]) # name_key(cands[i])
                       /\ cands[i].path \in del)
                      => \A m \in 1..Len(games') :
                             name_key(games'[m]) # name_key(cands[i])]_vars

\* a pass has published with the Hades of D:\games deleted: the registry's
\* HADES, whose path is not deleted, is not listed either
DedupBeforeSuppressionWitness ==
    /\ last_scan.pass > 0
    /\ last_scan.result = games
    /\ games # <<>>
    /\ \E i \in 1..Len(RootCandidates[1]) :
          /\ name_key(RootCandidates[1][i]) = "hades"
          /\ RootCandidates[1][i].path \in Range(last_scan.deleted_paths)
    /\ \E i \in 1..Len(RegistryCandidates) :
          /\ name_key(RegistryCandidates[i]) = "hades"
          /\ RegistryCandidates[i].path \notin Range(last_scan.deleted_paths)
    /\ \A m \in 1..Len(games) : name_key(games[m]) # "hades"

\* C20 (Spec) - full replacement: the publication of a pass sets games to
\* the candidates of all roots and of the registry, without duplicates,
\* without the deleted paths the pass read, sorted, whatever games held
\* before; every other step of a worker, those of a failing pass included,
\* leaves games as it is
FullReplacement ==
    [][\A k \in 1..Len(threads) :
          /\ worker_publish(k) =>
                 games' = sorted_by_name(without_paths(
                              unique_games(RootCandidates[1] \o RootCandidates[2]
                                               \o RegistryCandidates),
                              threads[k].deleted_paths))
          /\ games' # games => (worker_publish(k) \/ ~scan_for_games(k))]_vars

\* an ad hoc scan had added the Hades of D:/games, which is not deleted; a
\* pass has published since, and that entry is not in games
FullReplacementWitness ==
    /\ last_cmd = "custom"
    /\ last_scan.pass > 0
    /\ games = last_scan.result
    /\ Len(games) = 3
    /\ \A c \in Range(CustomCandidates["D:/games"]) :
          c \notin Range(games) /\ c.path \notin DeletedPaths
====
